---- MODULE Spec2Model ----
(***************************************************************************)
(* Model of streamlit_app.py: ZRR / QPV eligibility checker.               *)
(*                                                                         *)
(* Python values are tagged records: None is [t |-> "None"], a bool is     *)
(* [t |-> "bool", v |-> ...], a str is [t |-> "str", v |-> <<chars>>], an  *)
(* int is [t |-> "int", v |-> n], so that a nullable value can be compared *)
(* with None.                                                              *)
(*                                                                         *)
(* Geometry: a polygon is an axis-aligned rectangle given by its corners   *)
(* in Lambert-93 metres (EPSG:2154); a point is given by the Lambert-93    *)
(* position of the place it designates.  The datum shift done by to_crs at *)
(* line 57 is the GIS library's; the model draws the projected point.      *)
(***************************************************************************)
EXTENDS Integers, Sequences, FiniteSets, TLC

VARIABLES
    pc,            \* which step the modelled run is at
    pt_wgs,        \* argument of calcul_proximite_qpv
    qpv_gdf,       \* argument of calcul_proximite_qpv
    res_qpv,       \* value returned by calcul_proximite_qpv
    zrr_file,      \* content of ZRR_CSV_PATH on disk
    df_zrr,        \* first value returned by load_zrr_data
    communes_zrr,  \* second value returned by load_zrr_data
    code_commune,  \* argument of check_zrr_statut
    zrr_statut,    \* pair returned by check_zrr_statut
    qpv_file,      \* content of QPV_GEO_PATH on disk
    cache_qpv,     \* st.cache_resource entry of load_qpv_polygones
    cache_zrr,     \* st.cache_resource entry of load_zrr_data
    n_read_qpv,    \* number of gpd.read_file calls so far
    n_to_crs,      \* number of to_crs calls on the polygons so far
    n_loaded_qpv,  \* number of times the body of load_qpv_polygones returned
    n_loaded_zrr,  \* number of times the body of load_zrr_data returned
    n_read_zrr,    \* number of pd.read_csv calls so far
    runs,          \* per browser session: the script run in progress, if any
    n_queries,     \* number of analyses finished so far
    query          \* the last finished analysis: replies, calls, res, error_msg

proxVars == <<pt_wgs, qpv_gdf, res_qpv>>

zrrVars == <<df_zrr, communes_zrr, code_commune, zrr_statut>>

appVars == <<qpv_file, cache_qpv, cache_zrr, n_read_qpv, n_to_crs, n_loaded_qpv,
             n_loaded_zrr, n_read_zrr, runs, n_queries, query>>

vars == <<pc, proxVars, zrr_file, zrrVars, appVars>>

(***************************************************************************)
(* Bounds                                                                  *)
(***************************************************************************)
MaxPolys == 2

MaxRows == 2

MaxQueries == 3

MaxSessions == 2

(***************************************************************************)
(* Python values                                                           *)
(***************************************************************************)
None == [t |-> "None"]

PyBool(b) == [t |-> "bool", v |-> b]

NotRun == [t |-> "NotRun"]

PyStr(chars) == [t |-> "str", v |-> chars]

PyInt(n) == [t |-> "int", v |-> n]

NaN == [t |-> "NaN"]

Exception(msg) == [t |-> "Exception", msg |-> msg]

\* outcome of one execution of a loader body: the value returned or the
\* exception raised, with the file reads and reprojections it made
Returned(value, reads, reprojections) ==
    [raised |-> FALSE, value |-> value, error |-> None,
     reads |-> reads, to_crs |-> reprojections]

Raised(error, reads) ==
    [raised |-> TRUE, value |-> None, error |-> Exception(error),
     reads |-> reads, to_crs |-> 0]

\* truth value of "not x"
Falsy(x) ==
    \/ x = None
    \/ x.t = "str" /\ Len(x.v) = 0
    \/ x.t = "int" /\ x.v = 0

DigitChar(d) == <<"0", "1", "2", "3", "4", "5", "6", "7", "8", "9">>[d + 1]

RECURSIVE DecimalChars(_)
DecimalChars(n) ==
    IF n < 10 THEN <<DigitChar(n)>>
    ELSE Append(DecimalChars(n \div 10), DigitChar(n % 10))

\* str(x) / astype(str)
Str(x) == IF x.t = "int" THEN PyStr(DecimalChars(x.v)) ELSE x

RECURSIVE Zeros(_)
Zeros(n) == IF n <= 0 THEN <<>> ELSE <<"0">> \o Zeros(n - 1)

\* variant: pads on the right
Zfill_PadRight(s, width) == PyStr(s.v \o Zeros(width - Len(s.v)))

\* str.zfill(width): zeros on the left, after a leading sign, never truncating
Zfill(s, width) ==
    IF Len(s.v) >= width THEN s
    ELSE IF Len(s.v) > 0 /\ s.v[1] \in {"+", "-"}
         THEN PyStr(<<s.v[1]>> \o Zeros(width - Len(s.v)) \o Tail(s.v))
         ELSE PyStr(Zeros(width - Len(s.v)) \o s.v)

\* str.startswith(prefixes, na=na) on one cell of a column
StartsWithAny(x, prefixes, na) ==
    IF x = NaN THEN na
    ELSE \E q \in prefixes :
             Len(q) <= Len(x.v) /\ SubSeq(x.v, 1, Len(q)) = q

(***************************************************************************)
(* Exact arithmetic helpers                                                *)
(***************************************************************************)
Max2(a, b) == IF a >= b THEN a ELSE b

RECURSIVE ISqrtIter(_, _, _)
ISqrtIter(n, lo, hi) ==
    IF lo >= hi THEN lo
    ELSE LET mid == (lo + hi + 1) \div 2
         IN  IF mid * mid <= n THEN ISqrtIter(n, mid, hi)
                               ELSE ISqrtIter(n, lo, mid - 1)

ISqrt(n) == ISqrtIter(n, 0, 4096)

Frac(n, d) == [num |-> n, den |-> d]

FracLeq(a, b) == a.num * b.den <= b.num * a.den

(***************************************************************************)
(* Geometry (shapely predicates on rectangles)                             *)
(***************************************************************************)
Point(x, y) == [t |-> "Point", x |-> x, y |-> y]

Rect(x1, y1, x2, y2) == [x1 |-> x1, y1 |-> y1, x2 |-> x2, y2 |-> y2]

\* shapely contains: the point is in the interior, the boundary excluded
Contains(g, p) == g.x1 < p.x /\ p.x < g.x2 /\ g.y1 < p.y /\ p.y < g.y2

\* squared planar distance from the point to the closed rectangle, in m^2
Dist2(g, p) ==
    LET dx == Max2(Max2(g.x1 - p.x, p.x - g.x2), 0)
        dy == Max2(Max2(g.y1 - p.y, p.y - g.y2), 0)
    IN  dx * dx + dy * dy

\* variant: the distance to the polygon's outline, positive inside
Distance_ToOutline(g, p) ==
    IF g.x1 < p.x /\ p.x < g.x2 /\ g.y1 < p.y /\ p.y < g.y2
    THEN LET m(a, b) == IF a <= b THEN a ELSE b
         IN  m(m(p.x - g.x1, g.x2 - p.x), m(p.y - g.y1, g.y2 - p.y))
    ELSE ISqrt(Dist2(g, p))

\* shapely distance, in metres: 0 inside and on the boundary
Distance(g, p) == ISqrt(Dist2(g, p))

(***************************************************************************)
(* GeoDataFrame of QPV polygons                                            *)
(***************************************************************************)
CrsNone == "None"

WGS84 == "EPSG:4326"

LAMBERT93 == "EPSG:2154"

GeoDataFrame(crs, rows) == [crs |-> crs, rows |-> rows]

\* gpd.GeoDataFrame(): no row and no CRS
EmptyGeoDataFrame == GeoDataFrame(CrsNone, <<>>)

GdfEmpty(gdf) == Len(gdf.rows) = 0

QpvRow(g, code, lib, com) ==
    [geometry |-> g, code_qp |-> code, lib_qp |-> lib, lib_com |-> com]

(***************************************************************************)
(* calcul_proximite_qpv                                                    *)
(***************************************************************************)
\* qpv_gdf.contains(pt_proj): one boolean per row
MaskInside(gdf, pt) ==
    [i \in 1..Len(gdf.rows) |-> Contains(gdf.rows[i].geometry, pt)]

\* qpv_gdf[mask_inside]: the rows whose mask is true, in frame order
RECURSIVE RowsWhere(_, _, _)
RowsWhere(rows, mask, i) ==
    IF i > Len(rows) THEN <<>>
    ELSE (IF mask[i] THEN <<rows[i]>> ELSE <<>>) \o RowsWhere(rows, mask, i + 1)

QpvEntry(row) ==
    [code_qp |-> row.code_qp, lib_qp |-> row.lib_qp, commune_qp |-> row.lib_com]

\* the loop over qpv_inside.iterrows()
QpvDansLesquels(inside) == [i \in 1..Len(inside) |-> QpvEntry(inside[i])]

\* qpv_gdf.geometry.distance(pt_proj): one distance in metres per row
DistancesM(gdf, pt) ==
    [i \in 1..Len(gdf.rows) |-> Distance(gdf.rows[i].geometry, pt)]

\* variant: the largest value instead of the smallest
SeriesMin_Max(ds) == CHOOSE d \in {ds[i] : i \in 1..Len(ds)} :
                         \A j \in 1..Len(ds) : d >= ds[j]

\* Series.min()
SeriesMin(ds) == CHOOSE d \in {ds[i] : i \in 1..Len(ds)} :
                     \A j \in 1..Len(ds) : d <= ds[j]

\* variant: the last row that attains the minimum
IdxMin_Last(ds) == CHOOSE i \in 1..Len(ds) :
                       /\ \A j \in 1..Len(ds) : ds[i] <= ds[j]
                       /\ \A j \in (i + 1)..Len(ds) : ds[j] > ds[i]

\* Series.idxmin(): the first row that attains the minimum
IdxMin(ds) == CHOOSE i \in 1..Len(ds) :
                  /\ \A j \in 1..Len(ds) : ds[i] <= ds[j]
                  /\ \A j \in 1..(i - 1) : ds[j] > ds[i]

\* min_dist_m / 1000.0
KmFromM(m) == Frac(m, 1000)

\* variant: strict comparison
AMoins1Km_Strict(distance_km) ==
    distance_km.num * 1 < 1 * distance_km.den

\* distance_km <= 1
AMoins1Km(distance_km) == FracLeq(distance_km, Frac(1, 1))

ProximityRecord(pt_proj, gdf) ==
    LET mask_inside  == MaskInside(gdf, pt_proj)
        qpv_inside   == RowsWhere(gdf.rows, mask_inside, 1)
        est_dans_qpv == Len(qpv_inside) # 0
        dans         == IF est_dans_qpv THEN QpvDansLesquels(qpv_inside) ELSE <<>>
        distances_m  == DistancesM(gdf, pt_proj)
        min_dist_m   == SeriesMin(distances_m)
        distance_km  == KmFromM(min_dist_m)
        row_min      == gdf.rows[IdxMin(distances_m)]
    IN  [t                 |-> "dict",
         est_dans_qpv      |-> est_dans_qpv,
         distance_km       |-> distance_km,
         a_moins_1km_qpv   |-> AMoins1Km(distance_km),
         qpv_dans_lesquels |-> dans,
         qpv_plus_proche   |-> [code_qp     |-> row_min.code_qp,
                                lib_qp      |-> row_min.lib_qp,
                                commune_qp  |-> row_min.lib_com,
                                distance_km |-> distance_km]]

\* variant: a point farther than the threshold is reported as no result
calcul_proximite_qpv_FarIsNone(pt, gdf) ==
    IF pt = None \/ GdfEmpty(gdf) THEN None
    ELSE LET r == ProximityRecord(pt, gdf)
         IN  IF r.a_moins_1km_qpv THEN r ELSE None

calcul_proximite_qpv(pt, gdf) ==
    IF pt = None \/ GdfEmpty(gdf) THEN None
    ELSE ProximityRecord(pt, gdf)

(***************************************************************************)
(* Inputs of the proximity computation                                     *)
(***************************************************************************)
\* QP1 is the square of the spec's scenarios; QP2 overlaps it and covers its
\* right edge; QP3 lies about 3 km to the east.
QpvRows == {
    QpvRow(Rect(0, 0, 10, 10),       "QP1", "Quartier 1", "Ville A"),
    QpvRow(Rect(6, 0, 20, 10),       "QP2", "Quartier 2", "Ville A"),
    QpvRow(Rect(3000, 0, 3010, 10),  "QP3", "Quartier 3", "Ville B") }

RECURSIVE SeqsUpTo(_, _)
SeqsUpTo(S, n) ==
    IF n = 0 THEN {<<>>}
    ELSE LET shorter == SeqsUpTo(S, n - 1)
         IN  shorter \cup {Append(q, e) : q \in shorter, e \in S}

QpvFrames == {GeoDataFrame(LAMBERT93, rows) : rows \in SeqsUpTo(QpvRows, MaxPolys)}
                 \cup {EmptyGeoDataFrame}

Points == {
    Point(5, 5), Point(8, 5), Point(10, 5), Point(6, 5), Point(20, 5),
    Point(3, 10), Point(0, 0),
    Point(1020, 5), Point(1021, 5), Point(-1000, 5), Point(-1001, 5),
    Point(1505, 5), Point(0, 1010), Point(0, 1011), Point(610, 810),
    Point(8, 1010), Point(8, 1011), Point(8, -990) }

\* the distances are whole metres: integer arithmetic is then exact
WholeMetres(pt, gdf) ==
    \A i \in 1..Len(gdf.rows) :
        LET d2 == Dist2(gdf.rows[i].geometry, pt)
        IN  ISqrt(d2) * ISqrt(d2) = d2

ZrrUnused ==
    /\ df_zrr = <<>>
    /\ communes_zrr = {}
    /\ code_commune = None
    /\ zrr_statut = NotRun

AppUnused ==
    /\ qpv_file = [exists |-> FALSE]
    /\ cache_qpv = NotRun
    /\ cache_zrr = NotRun
    /\ n_read_qpv = 0
    /\ n_to_crs = 0
    /\ n_loaded_qpv = 0
    /\ n_loaded_zrr = 0
    /\ n_read_zrr = 0
    /\ runs = <<>>
    /\ n_queries = 0
    /\ query = NotRun

InitProx ==
    /\ pc = "prox"
    /\ zrr_file = [exists |-> FALSE]
    /\ ZrrUnused
    /\ AppUnused
    /\ pt_wgs \in Points \cup {None}
    /\ qpv_gdf \in QpvFrames
    /\ pt_wgs # None => WholeMetres(pt_wgs, qpv_gdf)
    /\ res_qpv = NotRun

CalculProximiteQpv ==
    /\ pc = "prox"
    /\ res_qpv' = calcul_proximite_qpv(pt_wgs, qpv_gdf)
    /\ pc' = "prox_done"
    /\ UNCHANGED <<pt_wgs, qpv_gdf, zrr_file, zrrVars, appVars>>

NextProx == CalculProximiteQpv

SpecProx == InitProx /\ [][NextProx]_vars

(***************************************************************************)
(* Properties of calcul_proximite_qpv, checked under SpecProx              *)
(***************************************************************************)
ProxDone == pc = "prox_done"

ProxComputed == ProxDone /\ res_qpv # None

NPolys == Len(qpv_gdf.rows)

Geom(i) == qpv_gdf.rows[i].geometry

\* geometric position of the point with respect to a polygon
StrictlyInside(g, p) == g.x1 < p.x /\ p.x < g.x2 /\ g.y1 < p.y /\ p.y < g.y2

Exterior(g, p) == p.x < g.x1 \/ p.x > g.x2 \/ p.y < g.y1 \/ p.y > g.y2

OnBoundary(g, p) == ~StrictlyInside(g, p) /\ ~Exterior(g, p)

\* exact distance in metres from the point to polygon i (whole by WholeMetres)
DistM(i) == ISqrt(Dist2(Geom(i), pt_wgs))

\* brute-force recomputation: d is the minimum distance, in metres
IsMinDistM(d) ==
    /\ \E i \in 1..NPolys : DistM(i) = d
    /\ \A i \in 1..NPolys : d <= DistM(i)

\* the distances of the polygons of the set
AllDistM == {DistM(i) : i \in 1..NPolys}

\* the reported nearest polygon is row i
PlusProcheIs(i) ==
    /\ res_qpv.qpv_plus_proche.code_qp = qpv_gdf.rows[i].code_qp
    /\ res_qpv.qpv_plus_proche.lib_qp = qpv_gdf.rows[i].lib_qp
    /\ res_qpv.qpv_plus_proche.commune_qp = qpv_gdf.rows[i].lib_com

\* C1: calcul_proximite_qpv returns None exactly when the point is None or
\* the polygon set is empty; for a present point and a non-empty set it
\* returns a result record, also when the nearest polygon is far away.
C1_NullIffNoPointOrNoPolygons ==
    ProxDone =>
        /\ (res_qpv = None) <=> (pt_wgs = None \/ Len(qpv_gdf.rows) = 0)
        /\ (pt_wgs # None /\ Len(qpv_gdf.rows) > 0) => res_qpv.t = "dict"

\* a far-away point (more than 1 km from every polygon) got a record
C1_Witness_FarAwayRecord ==
    /\ ProxDone
    /\ pt_wgs # None
    /\ NPolys > 0
    /\ \A i \in 1..NPolys : DistM(i) > 1000
    /\ res_qpv # None

\* C2: in every result record a_moins_1km_qpv is true iff distance_km <= 1,
\* the boundary included: a minimum distance of 1000 m gives true and any
\* larger one gives false.
C2_ThresholdInclusive ==
    ProxComputed =>
        /\ res_qpv.a_moins_1km_qpv <=>
               (res_qpv.distance_km.num <= res_qpv.distance_km.den)
        /\ \A d \in AllDistM :
               IsMinDistM(d) => (res_qpv.a_moins_1km_qpv <=> d <= 1000)

\* the minimum distance is exactly 1000 m and the flag is true
C2_Witness_Exactly1000m ==
    /\ ProxComputed
    /\ IsMinDistM(1000)
    /\ res_qpv.a_moins_1km_qpv

\* C3: a point strictly inside some polygon gives est_dans_qpv = true and
\* distance_km = 0; whenever est_dans_qpv is true, distance_km is 0 and
\* a_moins_1km_qpv is true.
C3_InsideMeansZeroDistance ==
    ProxComputed =>
        /\ (\E i \in 1..NPolys : StrictlyInside(Geom(i), pt_wgs)) =>
               /\ res_qpv.est_dans_qpv
               /\ res_qpv.distance_km.num = 0
               /\ res_qpv.a_moins_1km_qpv
        /\ res_qpv.est_dans_qpv =>
               /\ res_qpv.distance_km.num = 0
               /\ res_qpv.a_moins_1km_qpv

\* the point is strictly inside a polygon and at a distance from another
C3_Witness_StrictlyInside ==
    /\ ProxComputed
    /\ \E i \in 1..NPolys : StrictlyInside(Geom(i), pt_wgs)
    /\ \E i \in 1..NPolys : Exterior(Geom(i), pt_wgs)
    /\ res_qpv.est_dans_qpv

\* C4: for a point in the exterior of every polygon, est_dans_qpv is false,
\* distance_km is positive and equals the minimum point-to-polygon distance
\* divided by 1000, qpv_plus_proche is a polygon at that minimum distance
\* and carries the same distance_km.
C4_OutsideMinDistance ==
    (ProxComputed /\ \A i \in 1..NPolys : Exterior(Geom(i), pt_wgs)) =>
        /\ ~res_qpv.est_dans_qpv
        /\ res_qpv.distance_km.num > 0 /\ res_qpv.distance_km.den > 0
        /\ \A d \in AllDistM :
               IsMinDistM(d) =>
                   /\ res_qpv.distance_km.num * 1000 = d * res_qpv.distance_km.den
                   /\ \E i \in 1..NPolys : PlusProcheIs(i) /\ DistM(i) = d
        /\ res_qpv.qpv_plus_proche.distance_km = res_qpv.distance_km

\* the point is outside two polygons at different distances, the nearer one
\* coming second
C4_Witness_NearestIsSecond ==
    /\ ProxComputed
    /\ NPolys = 2
    /\ \A i \in 1..NPolys : Exterior(Geom(i), pt_wgs)
    /\ DistM(2) < DistM(1)
    /\ PlusProcheIs(2)
    /\ ~res_qpv.est_dans_qpv

\* the entries of the polygons that contain the point, in set order
RECURSIVE ContainingFrom(_)
ContainingFrom(i) ==
    IF i > NPolys THEN <<>>
    ELSE (IF StrictlyInside(Geom(i), pt_wgs)
              THEN <<[code_qp    |-> qpv_gdf.rows[i].code_qp,
                      lib_qp     |-> qpv_gdf.rows[i].lib_qp,
                      commune_qp |-> qpv_gdf.rows[i].lib_com]>>
              ELSE <<>>) \o ContainingFrom(i + 1)

ListsContaining ==
    /\ res_qpv.est_dans_qpv <=> (Len(res_qpv.qpv_dans_lesquels) > 0)
    /\ res_qpv.qpv_dans_lesquels = ContainingFrom(1)

PlusProcheListed ==
    \E k \in 1..Len(res_qpv.qpv_dans_lesquels) :
        /\ res_qpv.qpv_dans_lesquels[k].code_qp = res_qpv.qpv_plus_proche.code_qp
        /\ res_qpv.qpv_dans_lesquels[k].lib_qp = res_qpv.qpv_plus_proche.lib_qp
        /\ res_qpv.qpv_dans_lesquels[k].commune_qp = res_qpv.qpv_plus_proche.commune_qp

\* C10 as stated: est_dans_qpv is true iff qpv_dans_lesquels is non-empty,
\* qpv_dans_lesquels lists every containing polygon in set order, and when
\* est_dans_qpv is true qpv_plus_proche is one of the listed polygons.
C10_Original_PlusProcheAlwaysListed ==
    ProxComputed =>
        /\ ListsContaining
        /\ res_qpv.est_dans_qpv => PlusProcheListed

\* C10 amended: est_dans_qpv is true iff qpv_dans_lesquels is non-empty,
\* qpv_dans_lesquels lists every containing polygon in set order, and when
\* est_dans_qpv is true qpv_plus_proche is the first polygon of the set that
\* contains the point or has it on its boundary; it is listed whenever no
\* polygon before the first containing one has the point on its boundary.
C10_PlusProcheFirstAtZero ==
    ProxComputed =>
        /\ ListsContaining
        /\ res_qpv.est_dans_qpv =>
               /\ \E i \in 1..NPolys :
                      /\ ~Exterior(Geom(i), pt_wgs)
                      /\ \A j \in 1..(i - 1) : Exterior(Geom(j), pt_wgs)
                      /\ PlusProcheIs(i)
               /\ (\A i \in 1..NPolys :
                       OnBoundary(Geom(i), pt_wgs) =>
                           \E j \in 1..(i - 1) : StrictlyInside(Geom(j), pt_wgs))
                      => PlusProcheListed

\* the point is on the boundary of the first polygon and inside the second:
\* the first one is reported as nearest
C10_Witness_BoundaryOfEarlier ==
    /\ ProxComputed
    /\ NPolys = 2
    /\ OnBoundary(Geom(1), pt_wgs)
    /\ StrictlyInside(Geom(2), pt_wgs)
    /\ res_qpv.est_dans_qpv
    /\ PlusProcheIs(1)

(***************************************************************************)
(* load_zrr_data and check_zrr_statut                                      *)
(***************************************************************************)
CodeWidth == 5

ZrrRow(codgeo, libgeo, simp) ==
    [CODGEO |-> codgeo, LIBGEO |-> libgeo, ZRR_SIMP |-> simp]

\* pd.read_csv(path, header=5): line 6 names the columns, the data follow
ReadCsv(file, header) == SubSeq(file.lines, header + 2, Len(file.lines))

\* df_zrr["CODGEO"].astype(str).str.zfill(5)
NormaliseCodgeo(rows) ==
    [i \in 1..Len(rows) |->
        [rows[i] EXCEPT !.CODGEO = Zfill(Str(rows[i].CODGEO), CodeWidth)]]

\* the CODGEO of the rows whose ZRR_SIMP starts with "C" or "P"
CommunesZrr(df) ==
    {df[i].CODGEO : i \in {j \in 1..Len(df) :
                              StartsWithAny(df[j].ZRR_SIMP, {<<"C">>, <<"P">>}, FALSE)}}

\* read_csv types a column whose cells are all empty as float64, and the
\* .str accessor refuses it; a column of a frame with no row is object
StrAccessorRefused(rows) ==
    Len(rows) > 0 /\ \A i \in 1..Len(rows) : rows[i].ZRR_SIMP = NaN

load_zrr_data(file) ==
    IF ~file.exists THEN Returned([df |-> <<>>, communes |-> {}], 0, 0)
    ELSE LET df == NormaliseCodgeo(ReadCsv(file, 5))
         IN  IF StrAccessorRefused(df)
             THEN Raised("Can only use .str accessor with string values!", 1)
             ELSE Returned([df |-> df, communes |-> CommunesZrr(df)], 1, 0)

\* df_zrr.loc[df_zrr["CODGEO"] == code_commune]
RECURSIVE RowsWithCode(_, _, _)
RowsWithCode(df, code, i) ==
    IF i > Len(df) THEN <<>>
    ELSE (IF df[i].CODGEO = code THEN <<df[i]>> ELSE <<>>)
             \o RowsWithCode(df, code, i + 1)

\* variant: a code that is not in the membership set is reported as unknown
check_zrr_statut_AbsentIsNone(code, df, communes) ==
    IF Falsy(code) THEN <<None, None>>
    ELSE LET c       == Zfill(Str(code), CodeWidth)
             row_zrr == RowsWithCode(df, c, 1)
         IN  IF c \in communes
             THEN <<PyBool(TRUE),
                    IF Len(row_zrr) # 0 THEN row_zrr[1].LIBGEO ELSE None>>
             ELSE <<None, None>>

check_zrr_statut(code, df, communes) ==
    IF Falsy(code) THEN <<None, None>>
    ELSE LET c       == Zfill(Str(code), CodeWidth)
             is_zrr  == c \in communes
             row_zrr == RowsWithCode(df, c, 1)
             label   == IF is_zrr /\ Len(row_zrr) # 0
                        THEN row_zrr[1].LIBGEO ELSE None
         IN  <<PyBool(is_zrr), label>>

(***************************************************************************)
(* Inputs of the zone lookup                                               *)
(***************************************************************************)
\* CODGEO cells as read_csv yields them: text, or a number when numeric
RawCodes == { PyStr(<<"0", "1", "2", "3", "4">>), PyInt(1234),
              PyStr(<<"7", "5", "0", "5", "6">>) }

Labels == { PyStr(<<"A">>), PyStr(<<"B">>) }

Classifications == { PyStr(<<"C">>), PyStr(<<"P">>), PyStr(<<"N", "C">>), NaN }

ZrrRows == {ZrrRow(c, l, z) : c \in RawCodes, l \in Labels, z \in Classifications}

TextLine(n) == [t |-> "text", n |-> n]

\* five lines of preamble, the line of column names, then the data
ZrrFile(rows) ==
    [exists |-> TRUE,
     lines  |-> <<TextLine(1), TextLine(2), TextLine(3), TextLine(4), TextLine(5),
                  [t |-> "columns"]>> \o rows]

AbsentFile == [exists |-> FALSE]

ZrrFiles == {ZrrFile(rows) : rows \in SeqsUpTo(ZrrRows, MaxRows)} \cup {AbsentFile}

CodeInputs == { None, PyStr(<<>>),
                PyStr(<<"1", "2", "3", "4">>), PyStr(<<"0", "1", "2", "3", "4">>),
                PyInt(1234), PyStr(<<"7", "5", "0", "5", "6">>), PyInt(75056),
                PyStr(<<"9", "9", "9", "9", "9">>), PyStr(<<"2", "A", "0", "0", "4">>),
                PyStr(<<"1">>), PyInt(1) }

ProxUnused ==
    /\ pt_wgs = None
    /\ qpv_gdf = EmptyGeoDataFrame
    /\ res_qpv = NotRun

InitZrr ==
    /\ pc = "zrr"
    /\ ProxUnused
    /\ AppUnused
    /\ zrr_file \in ZrrFiles
    /\ code_commune \in CodeInputs
    /\ df_zrr = <<>>
    /\ communes_zrr = {}
    /\ zrr_statut = NotRun

LoadZrrData ==
    /\ pc = "zrr"
    /\ LET loaded == load_zrr_data(zrr_file)
       IN  IF loaded.raised
           THEN /\ pc' = "zrr_raised"
                /\ UNCHANGED <<df_zrr, communes_zrr>>
           ELSE /\ pc' = "zrr_loaded"
                /\ df_zrr' = loaded.value.df
                /\ communes_zrr' = loaded.value.communes
    /\ UNCHANGED <<proxVars, zrr_file, code_commune, zrr_statut, appVars>>

CheckZrrStatut ==
    /\ pc = "zrr_loaded"
    /\ zrr_statut' = check_zrr_statut(code_commune, df_zrr, communes_zrr)
    /\ pc' = "zrr_done"
    /\ UNCHANGED <<proxVars, zrr_file, df_zrr, communes_zrr, code_commune, appVars>>

NextZrr == LoadZrrData \/ CheckZrrStatut

SpecZrr == InitZrr /\ [][NextZrr]_vars

(***************************************************************************)
(* Properties of the zone lookup, checked under SpecZrr                    *)
(***************************************************************************)
ZrrDone == pc = "zrr_done"

\* the data rows of the file on disk, as written there
FileRows ==
    IF zrr_file.exists THEN SubSeq(zrr_file.lines, 7, Len(zrr_file.lines))
    ELSE <<>>

\* a code that is neither missing nor empty
Present(code) == code # None /\ code # PyStr(<<>>)

RECURSIVE StripZeros(_)
StripZeros(chars) ==
    IF Len(chars) > 0 /\ chars[1] = "0" THEN StripZeros(Tail(chars)) ELSE chars

\* the written form of a code, leading zeros dropped
Significant(code) ==
    StripZeros(IF code.t = "int" THEN DecimalChars(code.v) ELSE code.v)

\* two representations of the same municipality code
SameCode(a, b) == Significant(a) = Significant(b)

\* the row's classification starts with a marker prefix
Marked(row) ==
    /\ row.ZRR_SIMP # NaN
    /\ Len(row.ZRR_SIMP.v) > 0
    /\ row.ZRR_SIMP.v[1] \in {"C", "P"}

\* the code is the code of a marked row of the file
InMembership(code) ==
    \E i \in 1..Len(FileRows) :
        SameCode(FileRows[i].CODGEO, code) /\ Marked(FileRows[i])

\* C5: check_zrr_statut returns (None, None) only when the code is missing
\* or empty; a present code with no marked row in the table gives
\* (False, None); the flag is True exactly when the normalized code is in
\* the membership set of the rows whose ZRR_SIMP starts with "C" or "P".
C5_AbsentCodeIsFalseNotNone ==
    ZrrDone =>
        /\ (zrr_statut = <<None, None>>) <=> ~Present(code_commune)
        /\ (Present(code_commune) /\ ~InMembership(code_commune)) =>
               zrr_statut = <<PyBool(FALSE), None>>
        /\ Present(code_commune) =>
               (zrr_statut[1] = PyBool(TRUE) <=> InMembership(code_commune))

\* a present code whose only rows are unmarked got (False, None)
C5_Witness_UnmarkedRowOnly ==
    /\ ZrrDone
    /\ Present(code_commune)
    /\ \E i \in 1..Len(FileRows) : SameCode(FileRows[i].CODGEO, code_commune)
    /\ ~InMembership(code_commune)
    /\ zrr_statut = <<PyBool(FALSE), None>>

\* C7: codes are normalized to 5 characters, zero-padded on the left, in
\* the loaded table and at query time, so every representation of the same
\* code ("1234", "01234", 1234) gives the same key and the same
\* (is_zrr, zrr_label) pair.
C7_SameCodeSameResult ==
    ZrrDone =>
        /\ \A i \in 1..Len(df_zrr) :
               /\ df_zrr[i].CODGEO.t = "str"
               /\ Len(df_zrr[i].CODGEO.v) = 5
               /\ SameCode(df_zrr[i].CODGEO, FileRows[i].CODGEO)
        /\ Present(code_commune) =>
               \A other \in CodeInputs :
                   (Present(other) /\ SameCode(other, code_commune)) =>
                       /\ Zfill(Str(other), 5) = Zfill(Str(code_commune), 5)
                       /\ Len(Zfill(Str(other), 5).v) = 5
                       /\ check_zrr_statut(other, df_zrr, communes_zrr) = zrr_statut

\* the number 1234 is found through a marked row written "01234"
C7_Witness_NumberFindsPaddedRow ==
    /\ ZrrDone
    /\ code_commune = PyInt(1234)
    /\ \E i \in 1..Len(FileRows) :
           /\ FileRows[i].CODGEO = PyStr(<<"0", "1", "2", "3", "4">>)
           /\ Marked(FileRows[i])
    /\ zrr_statut[1] = PyBool(TRUE)
    /\ zrr_statut[2] # None

(***************************************************************************)
(* Reference data loading behind st.cache_resource                         *)
(***************************************************************************)
\* gdf.to_crs(epsg=...): same places on the ground, expressed in the new CRS
ToCrs(gdf, crs) == [gdf EXCEPT !.crs = crs]

load_qpv_polygones(file) ==
    IF ~file.exists THEN Returned(EmptyGeoDataFrame, 0, 0)
    ELSE LET gdf == GeoDataFrame(file.crs, file.rows)
         IN  IF gdf.crs = CrsNone
             THEN Raised("Le fichier QPV n'a pas de CRS.", 1)
             ELSE IF gdf.crs # LAMBERT93
                  THEN Returned(ToCrs(gdf, LAMBERT93), 1, 1)
                  ELSE Returned(gdf, 1, 0)

\* variant: the value is computed but not kept
cache_resource_NoStore(cache, body) ==
    IF cache # NotRun
    THEN [outcome |-> Returned(cache, 0, 0), cache |-> cache, loaded |-> 0]
    ELSE [outcome |-> body, cache |-> cache,
          loaded |-> IF body.raised THEN 0 ELSE 1]

\* @st.cache_resource: a stored value is returned without running the body;
\* otherwise the body runs and its value is stored, an exception is not
cache_resource(cache, body) ==
    IF cache # NotRun
    THEN [outcome |-> Returned(cache, 0, 0), cache |-> cache, loaded |-> 0]
    ELSE [outcome |-> body, cache |-> IF body.raised THEN cache ELSE body.value,
          loaded |-> IF body.raised THEN 0 ELSE 1]

(***************************************************************************)
(* The two analyses, cut at the points where the script waits              *)
(***************************************************************************)
\* a reply of an external service: requests.get raised, or a response with
\* its status and decoded body (NotJson when r.json() raises)
ConnectionError == [t |-> "ConnectionError"]

Response(status, body) == [t |-> "Response", status |-> status, body |-> body]

NotJson == [t |-> "NotJson"]

\* result of a piece of code: the value it returns or the exception it raises
Value(v) == [raised |-> FALSE, value |-> v, error |-> None]

Raises(msg) == [raised |-> TRUE, value |-> None, error |-> Exception(msg)]

\* f"Erreur API SIRENE ({r.status_code})"
ErreurSirene(status) == "Erreur API SIRENE (" \o ToString(status) \o ")"

get_sirene_etab(r) ==
    IF r = ConnectionError THEN Raises("ConnectionError")
    ELSE IF r.status # 200 THEN Raises(ErreurSirene(r.status))
    ELSE IF r.body = NotJson THEN Raises("JSONDecodeError")
    ELSE Value(r.body.etablissement)

\* lines 122-137: the municipality code of the establishment and its ZRR
\* status; etab.get and adr.get raise on None
siret_code_and_statut(etab, zrr) ==
    IF etab = None THEN Raises("'NoneType' object has no attribute 'get'")
    ELSE IF etab.adresseEtablissement = None
    THEN Raises("'NoneType' object has no attribute 'get'")
    ELSE LET code == etab.adresseEtablissement.codeCommuneEtablissement
         IN  Value([code   |-> code,
                    statut |-> check_zrr_statut(code, zrr.df, zrr.communes)])

\* Point(lon, lat) of a feature
FeaturePoint(feature) == feature.coordinates

\* variant: a failed geocoding raises, as in the address analysis
siret_geocode_and_result_Raises(r_ban, code, statut, gdf) ==
    IF r_ban = ConnectionError THEN Raises("ConnectionError")
    ELSE IF r_ban.status # 200 THEN Raises("Erreur API Adresse")
    ELSE IF r_ban.body = NotJson THEN Raises("JSONDecodeError")
    ELSE IF Len(r_ban.body.features) = 0 THEN Raises("Adresse non trouvée.")
    ELSE Value([t |-> "dict", type |-> "siret", code_commune |-> code,
                in_zrr |-> statut[1], zrr_label |-> statut[2],
                qpv_data |-> calcul_proximite_qpv(
                                 FeaturePoint(r_ban.body.features[1]), gdf)])

\* lines 140-158: best-effort geocoding, proximity, the result record
siret_geocode_and_result(r_ban, code, statut, gdf) ==
    IF r_ban = ConnectionError THEN Raises("ConnectionError")
    ELSE IF r_ban.status = 200 /\ r_ban.body = NotJson
    THEN Raises("JSONDecodeError")
    ELSE LET pt == IF r_ban.status = 200 /\ Len(r_ban.body.features) # 0
                   THEN FeaturePoint(r_ban.body.features[1])
                   ELSE None
         IN  Value([t |-> "dict", type |-> "siret", code_commune |-> code,
                    in_zrr |-> statut[1], zrr_label |-> statut[2],
                    qpv_data |-> calcul_proximite_qpv(pt, gdf)])

\* lines 167-193: the first candidate, its ZRR status, proximity, the record
adresse_result(r_ban, gdf, zrr) ==
    IF r_ban = ConnectionError THEN Raises("ConnectionError")
    ELSE IF r_ban.status # 200 THEN Raises("Erreur API Adresse")
    ELSE IF r_ban.body = NotJson THEN Raises("JSONDecodeError")
    ELSE IF Len(r_ban.body.features) = 0 THEN Raises("Adresse non trouvée.")
    ELSE LET feat   == r_ban.body.features[1]
             code   == feat.citycode
             statut == check_zrr_statut(code, zrr.df, zrr.communes)
         IN  Value([t |-> "dict", type |-> "adresse", code_commune |-> code,
                    in_zrr |-> statut[1], zrr_label |-> statut[2],
                    qpv_data |-> calcul_proximite_qpv(FeaturePoint(feat), gdf)])

(***************************************************************************)
(* The application: files on disk, external services, browser sessions     *)
(***************************************************************************)
QP1 == QpvRow(Rect(0, 0, 10, 10), "QP1", "Quartier 1", "Ville A")

QP2 == QpvRow(Rect(6, 0, 20, 10), "QP2", "Quartier 2", "Ville A")

QpvFile(crs, rows) == [exists |-> TRUE, crs |-> crs, rows |-> rows]

QpvFilesApp == { AbsentFile,
                 QpvFile(CrsNone, <<QP1>>),
                 QpvFile(WGS84, <<QP1, QP2>>),
                 QpvFile(LAMBERT93, <<QP2, QP1>>),
                 QpvFile(LAMBERT93, <<>>) }

Code01234 == PyStr(<<"0", "1", "2", "3", "4">>)

Code75056 == PyStr(<<"7", "5", "0", "5", "6">>)

Code99999 == PyStr(<<"9", "9", "9", "9", "9">>)

ZrrFilesApp == { AbsentFile,
                 ZrrFile(<<>>),
                 ZrrFile(<<ZrrRow(Code01234, PyStr(<<"A">>), PyStr(<<"C">>))>>),
                 ZrrFile(<<ZrrRow(Code01234, PyStr(<<"A">>), NaN)>>),
                 ZrrFile(<<ZrrRow(PyInt(1234), PyStr(<<"B">>), PyStr(<<"N", "C">>)),
                           ZrrRow(Code75056, PyStr(<<"A">>), PyStr(<<"P">>))>>) }

\* replies of the registry
SireneReplies ==
    { ConnectionError,
      Response(404, NotJson),
      Response(200, [etablissement |-> None]),
      Response(200, [etablissement |-> [adresseEtablissement |-> None]]) }
    \cup { Response(200, [etablissement |->
               [adresseEtablissement |-> [codeCommuneEtablissement |-> c]]]) :
               c \in {None, Code01234, Code99999} }

GeocodedPoints == { Point(5, 5), Point(-1001, 5) }

\* replies of the geocoder
BanReplies ==
    { ConnectionError,
      Response(500, NotJson),
      Response(200, NotJson),
      Response(200, [features |-> <<>>]) }
    \cup { Response(200, [features |-> <<[coordinates |-> pt, citycode |-> c]>>]) :
               pt \in GeocodedPoints, c \in {None, Code01234, Code99999} }

Sessions == 1..MaxSessions

Called(calls, service) == \E k \in 1..Len(calls) : calls[k] = service

\* local variables of a script run; pc names the statement it waits at
Run(at, mode, gdf, zrr, r_sirene, code, statut) ==
    [pc |-> at, mode |-> mode, qpv_gdf |-> gdf, zrr |-> zrr,
     sirene |-> r_sirene, code |-> code, statut |-> statut, error |-> None]

Idle == Run("idle", None, None, None, None, None, None)

\* a loader raised: the exception is on its way to line 234 / 241
Excepting(mode, error) == [Idle EXCEPT !.pc = "except", !.mode = mode, !.error = error]

InFlight == Cardinality({s \in Sessions : runs[s].pc # "idle"})

Init ==
    /\ pc = "app"
    /\ ProxUnused
    /\ ZrrUnused
    /\ qpv_file \in QpvFilesApp
    /\ zrr_file \in ZrrFilesApp
    /\ cache_qpv = NotRun
    /\ cache_zrr = NotRun
    /\ n_read_qpv = 0
    /\ n_to_crs = 0
    /\ n_loaded_qpv = 0
    /\ n_loaded_zrr = 0
    /\ n_read_zrr = 0
    /\ runs = [s \in Sessions |-> Idle]
    /\ n_queries = 0
    /\ query = NotRun

\* the run of session s ends: res or error_msg is set (lines 233-235, 240-242)
Finish(s, mode, r_sirene, r_ban, calls, gdf, result) ==
    /\ runs' = [runs EXCEPT ![s] = Idle]
    /\ n_queries' = n_queries + 1
    /\ query' = [mode |-> mode, sirene |-> r_sirene, ban |-> r_ban,
                 calls |-> calls, gdf |-> gdf,
                 res |-> result.value, error_msg |-> result.error]

\* a button is pressed in session s: the run starts with line 117 / 163
Begin(s, mode) ==
    /\ pc = "app"
    /\ runs[s].pc = "idle"
    /\ n_queries + InFlight < MaxQueries
    /\ LET q == cache_resource(cache_qpv, load_qpv_polygones(qpv_file))
       IN  /\ cache_qpv' = q.cache
           /\ n_read_qpv' = n_read_qpv + q.outcome.reads
           /\ n_to_crs' = n_to_crs + q.outcome.to_crs
           /\ n_loaded_qpv' = n_loaded_qpv + q.loaded
           /\ runs' = [runs EXCEPT ![s] =
                  IF q.outcome.raised
                  THEN Excepting(mode, q.outcome.error)
                  ELSE Run("load_zrr", mode, q.outcome.value, None, None, None, None)]
           /\ UNCHANGED <<n_queries, query>>
    /\ UNCHANGED <<pc, proxVars, zrr_file, zrrVars, qpv_file, cache_zrr,
                   n_loaded_zrr, n_read_zrr>>

BeginSiret(s) == Begin(s, "siret")

BeginAdresse(s) == Begin(s, "adresse")

\* line 118 / 164, then the script sends its first request
LoadZrr(s) ==
    /\ runs[s].pc = "load_zrr"
    /\ LET z == cache_resource(cache_zrr, load_zrr_data(zrr_file))
       IN  /\ cache_zrr' = z.cache
           /\ n_read_zrr' = n_read_zrr + z.outcome.reads
           /\ n_loaded_zrr' = n_loaded_zrr + z.loaded
           /\ runs' = [runs EXCEPT ![s] =
                  IF z.outcome.raised
                  THEN Excepting(runs[s].mode, z.outcome.error)
                  ELSE Run(IF runs[s].mode = "siret" THEN "sirene" ELSE "ban",
                           runs[s].mode, runs[s].qpv_gdf, z.outcome.value,
                           None, None, None)]
           /\ UNCHANGED <<n_queries, query>>
    /\ UNCHANGED <<pc, proxVars, zrr_file, zrrVars, qpv_file, cache_qpv,
                   n_read_qpv, n_to_crs, n_loaded_qpv>>

\* the exception of a loader reaches line 234 / 241: error_msg is set
Except(s) ==
    /\ runs[s].pc = "except"
    /\ Finish(s, runs[s].mode, None, None, <<>>, NotRun, Raises(runs[s].error.msg))
    /\ UNCHANGED <<pc, proxVars, zrr_file, zrrVars, qpv_file, cache_qpv, cache_zrr,
                   n_read_qpv, n_to_crs, n_loaded_qpv, n_loaded_zrr, n_read_zrr>>

\* requests.get of line 110 comes back: lines 111-137, then the request of 141
SireneReply(s) ==
    /\ runs[s].pc = "sirene"
    /\ \E r \in SireneReplies :
           LET etab == get_sirene_etab(r)
               cs   == siret_code_and_statut(etab.value, runs[s].zrr)
           IN  IF etab.raised
               THEN Finish(s, "siret", r, None, <<"sirene">>, NotRun, etab)
               ELSE IF cs.raised
               THEN Finish(s, "siret", r, None, <<"sirene">>, NotRun, cs)
               ELSE /\ runs' = [runs EXCEPT ![s] =
                           Run("ban", "siret", runs[s].qpv_gdf, runs[s].zrr, r,
                               cs.value.code, cs.value.statut)]
                    /\ UNCHANGED <<n_queries, query>>
    /\ UNCHANGED <<pc, proxVars, zrr_file, zrrVars, qpv_file, cache_qpv, cache_zrr,
                   n_read_qpv, n_to_crs, n_loaded_qpv, n_loaded_zrr, n_read_zrr>>

\* requests.get of line 141 / 166 comes back: the run completes
BanReply(s) ==
    /\ runs[s].pc = "ban"
    /\ \E r \in BanReplies :
           IF runs[s].mode = "siret"
           THEN Finish(s, "siret", runs[s].sirene, r, <<"sirene", "ban">>,
                       runs[s].qpv_gdf,
                       siret_geocode_and_result(r, runs[s].code, runs[s].statut,
                                                runs[s].qpv_gdf))
           ELSE Finish(s, "adresse", None, r, <<"ban">>, runs[s].qpv_gdf,
                       adresse_result(r, runs[s].qpv_gdf, runs[s].zrr))
    /\ UNCHANGED <<pc, proxVars, zrr_file, zrrVars, qpv_file, cache_qpv, cache_zrr,
                   n_read_qpv, n_to_crs, n_loaded_qpv, n_loaded_zrr, n_read_zrr>>

Next ==
    \E s \in Sessions :
        \/ BeginSiret(s)
        \/ BeginAdresse(s)
        \/ LoadZrr(s)
        \/ Except(s)
        \/ SireneReply(s)
        \/ BanReply(s)

Spec == Init /\ [][Next]_vars

(***************************************************************************)
(* Properties of the analyses, checked under Spec                          *)
(***************************************************************************)
HasRun == query # NotRun

GotResult == HasRun /\ query.res # None

\* the service answered, with a status other than 200
Non200(r) == r # None /\ r # ConnectionError /\ r.status # 200

\* the geocoder answered with a non-200 status or with no candidate
GeocodingFailed(r) ==
    /\ r # None /\ r # ConnectionError
    /\ \/ r.status # 200
       \/ r.body # NotJson /\ Len(r.body.features) = 0

\* the geocoder answered with at least one candidate
GeocodingSucceeded(r) ==
    /\ r # ConnectionError /\ r.status = 200 /\ r.body # NotJson
    /\ Len(r.body.features) > 0

\* C6 as stated: when a reference dataset is empty the matching field of the
\* result is None: qpv_data with an empty polygon set, in_zrr with an empty
\* zone table, whatever the query and the mode.
C6_EmptyDataGivesNone ==
    GotResult =>
        /\ Len(query.gdf.rows) = 0 => query.res.qpv_data = None
        /\ Len(cache_zrr.df) = 0 => query.res.in_zrr = None

\* C8: a non-200 registry response, and in address mode a non-200 geocoding
\* response or an empty candidate list, end the query with an error and no
\* result, and no geocoding call follows a failed registry lookup; in
\* registry mode, after a successful registry lookup, a failed geocoding
\* (non-200 or no candidate) still gives a result whose qpv_data is None and
\* whose in_zrr and zrr_label are those obtained when geocoding succeeds.
C8_ErrorPropagation ==
    HasRun =>
        /\ (query.mode = "siret" /\ Non200(query.sirene)) =>
               /\ query.error_msg # None
               /\ query.res = None
        /\ (query.mode = "siret" /\ query.sirene # None
                /\ (query.sirene = ConnectionError \/ query.sirene.status # 200)) =>
               ~Called(query.calls, "ban")
        /\ (query.mode = "adresse" /\ GeocodingFailed(query.ban)) =>
               /\ query.error_msg # None
               /\ query.res = None
        /\ (query.mode = "siret" /\ GeocodingFailed(query.ban)) =>
               /\ query.calls = <<"sirene", "ban">>
               /\ query.error_msg = None
               /\ query.res # None
               /\ query.res.qpv_data = None
               /\ \A r \in BanReplies :
                      GeocodingSucceeded(r) =>
                          LET etab == get_sirene_etab(query.sirene).value
                              cs   == siret_code_and_statut(etab, cache_zrr).value
                              ok   == siret_geocode_and_result(
                                          r, cs.code, cs.statut, cache_qpv).value
                          IN  /\ ok # None
                              /\ ok.in_zrr = query.res.in_zrr
                              /\ ok.zrr_label = query.res.zrr_label

\* registry lookup succeeded, geocoding failed, and the result says the
\* municipality is in a ZRR
C8_Witness_GeocodingFailedAfterRegistry ==
    /\ HasRun
    /\ query.mode = "siret"
    /\ query.calls = <<"sirene", "ban">>
    /\ GeocodingFailed(query.ban)
    /\ query.res # None
    /\ query.res.in_zrr = PyBool(TRUE)
    /\ Len(query.gdf.rows) > 0
    /\ query.res.qpv_data = None

\* the polygon set a run holds or handed to calcul_proximite_qpv is the
\* stored one and, when it has polygons, is in the planar CRS
HandedStoredPlanar ==
    /\ (HasRun /\ query.gdf # NotRun) =>
           /\ query.gdf = cache_qpv
           /\ Len(query.gdf.rows) > 0 => query.gdf.crs = "EPSG:2154"
    /\ \A s \in Sessions :
           /\ runs[s].qpv_gdf # None => runs[s].qpv_gdf = cache_qpv
           /\ runs[s].zrr # None => runs[s].zrr = cache_zrr

\* the ZRR_SIMP column of the zone file has rows and no text at all
ZoneFileUnreadable ==
    /\ zrr_file.exists
    /\ Len(zrr_file.lines) > 6
    /\ \A i \in 7..Len(zrr_file.lines) : zrr_file.lines[i].ZRR_SIMP = NaN

\* the runs whose loader raised and whose error_msg is not set yet
NExcepting == Cardinality({s \in Sessions : runs[s].pc = "except"})

\* C9 as stated: over any sequence of analyses the polygon file is read at
\* most once and reprojected at most once, the zone table is built at most
\* once, later analyses reuse the stored value, and every non-empty polygon
\* set handed to calcul_proximite_qpv is in EPSG:2154.
C9_Original_ReadAtMostOnce ==
    /\ n_read_qpv <= 1
    /\ n_to_crs <= 1
    /\ n_loaded_zrr <= 1
    /\ HandedStoredPlanar

\* C9 amended: over any sequence of analyses each loader returns at most
\* once and its value is reused afterwards, so the polygon file is
\* reprojected at most once and each file is read at most once, unless the
\* load raises (polygon file without CRS, zone file whose ZRR_SIMP column is
\* entirely empty): then nothing is stored and every analysis reads the file
\* again and fails; every non-empty polygon set handed to
\* calcul_proximite_qpv is in EPSG:2154.
C9_LoadedAtMostOnce ==
    /\ n_loaded_qpv <= 1
    /\ n_to_crs <= 1
    /\ n_loaded_zrr <= 1
    /\ n_read_qpv > 1 => (qpv_file.exists /\ qpv_file.crs = "None"
                              /\ n_loaded_qpv = 0
                              /\ n_read_qpv = n_queries + NExcepting)
    /\ n_read_zrr > 1 => (ZoneFileUnreadable /\ n_loaded_zrr = 0
                              /\ n_read_zrr = n_queries + NExcepting)
    /\ HandedStoredPlanar

\* a second analysis finished on a file that needed reprojection, which was
\* done once, while another session's run is still waiting for a reply
C9_Witness_SecondAnalysisReuses ==
    /\ n_queries >= 2
    /\ \E s \in Sessions : runs[s].pc = "ban"
    /\ qpv_file.exists /\ qpv_file.crs = "EPSG:4326"
    /\ n_to_crs = 1
    /\ n_read_qpv = 1
    /\ n_loaded_zrr = 1
    /\ n_read_zrr = 1
    /\ query.gdf # NotRun /\ query.gdf.crs = "EPSG:2154"

====
